---- MODULE Spec2Model ----
(***************************************************************************)
(* Model of pyshexc/parser_impl/parser_context.py: the ParserContext that  *)
(* resolves prefixes, IRIs and literals of a parsed ShExC document, and    *)
(* its two escape translators.                                             *)
(*                                                                         *)
(* A text is a sequence of characters; a character is a one-character      *)
(* string, except the five control characters, which are written "BS"      *)
(* (backspace), "FF" (form feed), "LF" (newline), "CR" (carriage return)   *)
(* and "HT" (tab).                                                         *)
(***************************************************************************)
EXTENDS Integers, Sequences, FiniteSets, TLC

VARIABLES prefixes, ld_prefixes, base, op, arg, rval, keys

vars == <<prefixes, ld_prefixes, base, op, arg, rval, keys>>

\* Python's None, written as a text no string of characters equals: no
\* character is called None
None == <<"None">>

\* The backslash character
BSL == "\\"

(***************************************************************************)
(* Bounds                                                                  *)
(***************************************************************************)
\* longest text handed to the escape translators
MaxLen == 3
\* most characters or UCHARs between the delimiters of an IRIREF
MaxIriUnits == 2
\* most characters of the local part of a prefixed name
MaxLocalLen == 2
\* most digits of an INTEGER
MaxDigits == 2
\* most characters or escapes between the delimiters of a string
MaxStrUnits == 2

(***************************************************************************)
(* Generic helpers on texts                                                *)
(***************************************************************************)
\* all texts over alphabet A of length at most n
TextsUpTo(A, n) == UNION {[1..k -> A] : k \in 0..n}

\* Python's  c in s
Contains(s, c) == \E i \in 1..Len(s) : s[i] = c

\* Python's  s[i:]  with a 1-based first index
From(s, i) == SubSeq(s, i, Len(s))

(***************************************************************************)
(* Escape translators                                                      *)
(***************************************************************************)
\* str.maketrans('bfnrt', '\b\f\n\r\t')
re_trans_table == [c \in {"b", "f", "n", "r", "t"} |->
                     CASE c = "b" -> "BS"
                       [] c = "f" -> "FF"
                       [] c = "n" -> "LF"
                       [] c = "r" -> "CR"
                       [] c = "t" -> "HT"]

\* str.translate(re_trans_table): every character of s that the table maps
\* is replaced, the others are kept
translate(s) == [i \in 1..Len(s) |->
                   IF s[i] \in DOMAIN re_trans_table THEN re_trans_table[s[i]] ELSE s[i]]

\* _subf of fix_text_escapes: the whole two-character match is translated
text_subf(m) == translate(m)

\* re.sub(r'\\' + quote_char, quote_char, txt): left to right, a backslash
\* directly followed by the quote character becomes the quote character
RECURSIVE unescape_quote(_, _)
unescape_quote(txt, quote_char) ==
    IF txt = <<>> THEN <<>>
    ELSE IF Len(txt) >= 2 /\ txt[1] = BSL /\ txt[2] = quote_char
         THEN <<quote_char>> \o unescape_quote(From(txt, 3), quote_char)
         ELSE <<txt[1]>> \o unescape_quote(From(txt, 2), quote_char)

\* re.sub(r'\\.', _subf, txt, DOTALL): left to right without overlap, a
\* backslash followed by any character is replaced by _subf of the pair
RECURSIVE text_sub(_)
text_sub(txt) ==
    IF txt = <<>> THEN <<>>
    ELSE IF Len(txt) >= 2 /\ txt[1] = BSL
         THEN text_subf(SubSeq(txt, 1, 2)) \o text_sub(From(txt, 3))
         ELSE <<txt[1]>> \o text_sub(From(txt, 2))

fix_text_escapes(txt, quote_char) ==
    text_sub(IF quote_char # "" THEN unescape_quote(txt, quote_char) ELSE txt)

\* '\b\f\n\t\r' of fix_re_escapes._subf
re_controls == <<"BS", "FF", "LF", "HT", "CR">>

\* re_letters in the order of re_trans_table instead of the order of
\* re_controls
re_letters_sorted == <<"b", "f", "n", "r", "t">>

\* 'bfntr' of fix_re_escapes._subf
re_letters == <<"b", "f", "n", "t", "r">>

\* str.index
index(s, c) == CHOOSE i \in 1..Len(s) : s[i] = c /\ \A j \in 1..(i - 1) : s[j] # c

\* '\\.?*+^$()[]{|}'
re_metachars == {BSL, ".", "?", "*", "+", "^", "$", "(", ")", "[", "]", "{", "|", "}"}

\* re_subf keeping the backslash of every pair that is no control character
re_subf_keeps_escape(m) ==
    LET o == translate(m)
    IN  IF Contains(re_controls, o[2])
        THEN <<o[1], re_letters[index(re_controls, o[2])]>>
        ELSE o

\* _subf of fix_re_escapes
re_subf(m) ==
    LET o == translate(m)
    IN  IF Contains(re_controls, o[2])
        THEN <<o[1], re_letters[index(re_controls, o[2])]>>
        ELSE IF o[2] \in re_metachars THEN o ELSE <<o[2]>>

RECURSIVE fix_re_escapes(_)
fix_re_escapes(txt) ==
    IF txt = <<>> THEN <<>>
    ELSE IF Len(txt) >= 2 /\ txt[1] = BSL
         THEN re_subf(SubSeq(txt, 1, 2)) \o fix_re_escapes(From(txt, 3))
         ELSE <<txt[1]>> \o fix_re_escapes(From(txt, 2))

(***************************************************************************)
(* Prefix and IRI resolution                                               *)
(***************************************************************************)
\* the outcome of an operation that raises TypeError
TypeError == <<"TypeError">>

\* Python's  a + b  on strings; adding None raises TypeError
Plus(a, b) == IF a = None \/ b = None \/ a = TypeError \/ b = TypeError
              THEN TypeError ELSE a \o b

\* Python's  d.get(k, default)
Get(d, k, default) == IF k \in DOMAIN d THEN d[k] ELSE default

\* _lookup_prefix asking the user table before the reserved one
_lookup_prefix_user_first(prefix) ==
    IF Len(prefix) = 0 THEN base
    ELSE IF prefix \in DOMAIN prefixes THEN prefixes[prefix]
    ELSE Get(ld_prefixes, prefix, <<>>)

_lookup_prefix(prefix) ==
    IF Len(prefix) = 0 THEN base
    ELSE IF prefix \in DOMAIN ld_prefixes THEN ld_prefixes[prefix]
    ELSE Get(prefixes, prefix, <<>>)

\* int(h, 16) of the hexadecimal digits of a UCHAR
HexDigits == <<"0", "1", "2", "3", "4", "5", "6", "7", "8", "9", "A", "B", "C", "D", "E", "F">>

RECURSIVE HexValue(_)
HexValue(h) ==
    IF h = <<>> THEN 0
    ELSE 16 * HexValue(SubSeq(h, 1, Len(h) - 1)) + (index(HexDigits, h[Len(h)]) - 1)

\* chr(n), for the code points the UCHARs of the model denote
chr(n) == CASE n = 47 -> "/"
            [] n = 58 -> ":"
            [] n = 114 -> "r"

\* c.encode('utf-8') read back one byte per character, as the unicode-escape
\* codec does: an ASCII character is kept, e-acute becomes two characters
Latin1OfUtf8(c) == IF c = "é" THEN <<"Ã", "©">> ELSE <<c>>

\* txt.encode('utf-8').decode('unicode-escape'), on the body of an IRIREF:
\* the only escapes of an IRIREF are UCHARs, '\u' followed by four digits
RECURSIVE unicode_escape(_)
unicode_escape(txt) ==
    IF txt = <<>> THEN <<>>
    ELSE IF Len(txt) >= 6 /\ txt[1] = BSL /\ txt[2] = "u"
         THEN <<chr(HexValue(SubSeq(txt, 3, 6)))>> \o unicode_escape(From(txt, 7))
         ELSE Latin1OfUtf8(txt[1]) \o unicode_escape(From(txt, 2))

\* NotBase without the test: the base is taken to be set
NotBase_never == FALSE

\* Python's  not self.base : None is false; an empty IRI concatenates to the
\* same result whichever way it is read
NotBase == base = None \/ base = <<>>

\* iriref_to_str putting the base before a text that holds a ':'
iriref_to_str_always_base(ref) ==
    LET rv == unicode_escape(SubSeq(ref, 2, Len(ref) - 1))
    IN  IF NotBase THEN rv ELSE Plus(base, rv)

\* ref is the text of the IRIREF token
iriref_to_str(ref) ==
    LET rv == unicode_escape(SubSeq(ref, 2, Len(ref) - 1))
    IN  IF Contains(rv, ":") \/ NotBase THEN rv ELSE Plus(base, rv)

\* ShExJ.IRIREF(s) and ShExJ.BNODE(s)
IRIREF(s) == [tag |-> "IRIREF", val |-> s]
BNODE(s) == [tag |-> "BNODE", val |-> s]

\* SplitColon at the last ':' of the text, as rsplit does
SplitColon_last(s) ==
    LET i == CHOOSE k \in 1..Len(s) : s[k] = ":" /\ \A j \in (k + 1)..Len(s) : s[j] # ":"
    IN  <<SubSeq(s, 1, i - 1), From(s, i + 1)>>

\* Python's  s.split(':', 1)  of a text that holds a ':'
SplitColon(s) ==
    LET i == index(s, ":")
    IN  <<SubSeq(s, 1, i - 1), From(s, i + 1)>>

\* prefixedname_key without the ':' put back after the split
prefixedname_key_bare(node) ==
    IF node.alt = "PNAME_NS" THEN node.text
    ELSE SplitColon(node.text)[1]

\* the argument prefixedname_to_str hands to _lookup_prefix: the text of
\* PNAME_NS, or  prefix + ':'  of the split PNAME_LN
prefixedname_key(node) ==
    IF node.alt = "PNAME_NS" THEN node.text
    ELSE SplitColon(node.text)[1] \o <<":">>

prefixedname_to_str(node) ==
    IF node.alt = "PNAME_NS"
    THEN _lookup_prefix(prefixedname_key(node))
    ELSE LET local == SplitColon(node.text)[2]
         IN  Plus(_lookup_prefix(prefixedname_key(node)),
                  IF local # <<>> THEN local ELSE <<>>)

iri_to_str(iri_) ==
    IF iri_.alt = "IRIREF"
    THEN iriref_to_str(iri_.text)
    ELSE prefixedname_to_str(iri_.prefixedName)

iri_to_iriref(iri_) == IRIREF(iri_to_str(iri_))

shapeexprlabel_to_IRI(shapeExprLabel) ==
    IF shapeExprLabel.alt = "iri"
    THEN iri_to_iriref(shapeExprLabel.iri)
    ELSE BNODE(shapeExprLabel.text)

\* the argument shapeRef_to_iriref hands to _lookup_prefix in its two
\* shorthand alternatives: the text after the '@', or  prefix + ':'
shapeRef_key(ref) ==
    IF ref.alt = "ATPNAME_NS" THEN From(ref.text, 2)
    ELSE SplitColon(From(ref.text, 2))[1] \o <<":">>

shapeRef_to_iriref(ref) ==
    IF ref.alt = "ATPNAME_NS"
    THEN IRIREF(_lookup_prefix(shapeRef_key(ref)))
    ELSE IF ref.alt = "ATPNAME_LN"
    THEN LET local == SplitColon(From(ref.text, 2))[2]
         IN  IRIREF(Plus(_lookup_prefix(shapeRef_key(ref)),
                         IF local # <<>> THEN local ELSE <<>>))
    ELSE shapeexprlabel_to_IRI(ref.shapeExprLabel)

(***************************************************************************)
(* Literals                                                                *)
(***************************************************************************)
\* str(XSD.integer), str(XSD.double), str(XSD.decimal), str(XSD.boolean)
XSD == <<"h", "t", "t", "p", ":", "/", "/", "w", "w", "w", ".", "w", "3", ".", "o", "r", "g", "/", "2", "0", "0", "1", "/", "X", "M", "L", "S", "c", "h", "e", "m", "a", "#">>

RDF_INTEGER_TYPE == XSD \o <<"i", "n", "t", "e", "g", "e", "r">>
RDF_DOUBLE_TYPE == XSD \o <<"d", "o", "u", "b", "l", "e">>
RDF_DECIMAL_TYPE == XSD \o <<"d", "e", "c", "i", "m", "a", "l">>
RDF_BOOL_TYPE == XSD \o <<"b", "o", "o", "l", "e", "a", "n">>

Digits == <<"0", "1", "2", "3", "4", "5", "6", "7", "8", "9">>

\* the number a text of decimal digits denotes (0 for no digit)
RECURSIVE DigitsValue(_)
DigitsValue(d) ==
    IF d = <<>> THEN 0
    ELSE 10 * DigitsValue(SubSeq(d, 1, Len(d) - 1)) + (index(Digits, d[Len(d)]) - 1)

\* str(n) of a natural number
RECURSIVE NatStr(_)
NatStr(n) == IF n < 10 THEN <<Digits[n + 1]>> ELSE NatStr(n \div 10) \o <<Digits[(n % 10) + 1]>>

\* Python's int(text) of an INTEGER token, [+-]? [0-9]+
int(t) ==
    IF t[1] = "-" THEN 0 - DigitsValue(From(t, 2))
    ELSE IF t[1] = "+" THEN DigitsValue(From(t, 2))
    ELSE DigitsValue(t)

\* Python's str(n) of an int
str_int(n) == IF n < 0 THEN <<"-">> \o NatStr(0 - n) ELSE NatStr(n)

RECURSIVE Pow10(_)
Pow10(k) == IF k = 0 THEN 1 ELSE 10 * Pow10(k - 1)

\* the text without its trailing zeros
RECURSIVE StripZeros(_)
StripZeros(d) ==
    IF d # <<>> /\ d[Len(d)] = "0" THEN StripZeros(SubSeq(d, 1, Len(d) - 1)) ELSE d

\* the digits of n, zero-padded on the left to k digits
RECURSIVE PadStr(_, _)
PadStr(n, k) == IF k = 0 THEN <<>> ELSE PadStr(n \div 10, k - 1) \o <<Digits[(n % 10) + 1]>>

\* Python's str(float(text)) of a DECIMAL or DOUBLE token whose value is 0
\* or lies in [1e-4, 1e16) and has at most 15 significant digits: there
\* float() and str() round-trip the decimal digits, and str() writes them
\* without exponent, with at least one digit on each side of the point
str_float(t) ==
    LET neg == t[1] = "-"
        u == IF t[1] \in {"+", "-"} THEN From(t, 2) ELSE t
        hasExp == Contains(u, "e") \/ Contains(u, "E")
        ePos == IF Contains(u, "e") THEN index(u, "e") ELSE index(u, "E")
        mant == IF hasExp THEN SubSeq(u, 1, ePos - 1) ELSE u
        expo == IF hasExp THEN int(From(u, ePos + 1)) ELSE 0
        dot == IF Contains(mant, ".") THEN index(mant, ".") ELSE Len(mant) + 1
        ipart == SubSeq(mant, 1, dot - 1)
        fpart == From(mant, dot + 1)
        n == DigitsValue(ipart \o fpart)
        scale == Len(fpart) - expo
        whole == IF scale <= 0 THEN n * Pow10(0 - scale) ELSE n \div Pow10(scale)
        frac == IF scale <= 0 THEN <<>> ELSE StripZeros(PadStr(n % Pow10(scale), scale))
    IN  (IF neg THEN <<"-">> ELSE <<>>) \o NatStr(whole) \o <<".">>
           \o (IF frac = <<>> THEN <<"0">> ELSE frac)

\* jsg.Integer(s) and jsg.Number(s)
jsgInteger(s) == [tag |-> "Integer", val |-> s]
jsgNumber(s) == [tag |-> "Number", val |-> s]

\* numeric_literal_to_type keeping the text of an INTEGER as it is
numeric_literal_to_type_raw(numlit) ==
    IF numlit.alt = "INTEGER" THEN jsgInteger(numlit.text)
    ELSE IF numlit.alt = "DECIMAL" THEN jsgNumber(str_float(numlit.text))
    ELSE jsgNumber(str_float(numlit.text))

numeric_literal_to_type(numlit) ==
    IF numlit.alt = "INTEGER" THEN jsgInteger(str_int(int(numlit.text)))
    ELSE IF numlit.alt = "DECIMAL" THEN jsgNumber(str_float(numlit.text))
    ELSE jsgNumber(str_float(numlit.text))

UpperCase == <<"A", "B", "C", "D", "E", "F", "G", "H", "I", "J", "K", "L", "M", "N", "O", "P", "Q", "R", "S", "T", "U", "V", "W", "X", "Y", "Z">>
LowerCase == <<"a", "b", "c", "d", "e", "f", "g", "h", "i", "j", "k", "l", "m", "n", "o", "p", "q", "r", "s", "t", "u", "v", "w", "x", "y", "z">>

\* str.lower
lower(s) == [i \in 1..Len(s) |->
               IF Contains(UpperCase, s[i]) THEN LowerCase[index(UpperCase, s[i])] ELSE s[i]]

\* str.startswith and str.endswith
startswith(s, p) == Len(s) >= Len(p) /\ SubSeq(s, 1, Len(p)) = p
endswith(s, p) == Len(s) >= Len(p) /\ SubSeq(s, Len(s) - Len(p) + 1, Len(s)) = p

\* the two delimiters of a long string
LongQuote1 == <<"'", "'", "'">>
LongQuote2 == <<"\"", "\"", "\"">>

\* is_long_string asking for more than the two delimiters
is_long_string_nonempty(txt) ==
    Len(txt) > 6 /\ (\/ startswith(txt, LongQuote1) /\ endswith(txt, LongQuote1)
                     \/ startswith(txt, LongQuote2) /\ endswith(txt, LongQuote2))

\* the test of literal_to_ObjectLiteral for a long string
is_long_string(txt) ==
    Len(txt) > 5 /\ (\/ startswith(txt, LongQuote1) /\ endswith(txt, LongQuote1)
                     \/ startswith(txt, LongQuote2) /\ endswith(txt, LongQuote2))

\* ShExJ.ObjectLiteral(); a field that was not assigned is None; a datatype
\* is held as the text of its IRI
ObjectLiteral(value, type, language) == [value |-> value, type |-> type, language |-> language]

literal_to_ObjectLiteral(literal) ==
    IF literal.alt = "rdfLiteral"
    THEN LET rdflit == literal.rdfLiteral
             txt == rdflit.string
             quote_char == IF is_long_string(txt) THEN "" ELSE txt[1]
             body == IF is_long_string(txt) THEN SubSeq(txt, 4, Len(txt) - 3)
                     ELSE SubSeq(txt, 2, Len(txt) - 1)
         IN  ObjectLiteral(fix_text_escapes(body, quote_char),
                           IF rdflit.datatype.alt # "None"
                           THEN iri_to_str(rdflit.datatype.iri) ELSE None,
                           IF rdflit.LANGTAG # None
                           THEN lower(From(rdflit.LANGTAG, 2)) ELSE None)
    ELSE IF literal.alt = "numericLiteral"
    THEN LET numlit == literal.numericLiteral
         IN  IF numlit.alt = "INTEGER" THEN ObjectLiteral(numlit.text, RDF_INTEGER_TYPE, None)
             ELSE IF numlit.alt = "DECIMAL" THEN ObjectLiteral(numlit.text, RDF_DECIMAL_TYPE, None)
             ELSE ObjectLiteral(numlit.text, RDF_DOUBLE_TYPE, None)
    ELSE ObjectLiteral(lower(literal.text), RDF_BOOL_TYPE, None)

(***************************************************************************)
(* Inputs: the syntax nodes handed to the context.  A node is a record     *)
(* whose field alt names the alternative of its grammar rule that is       *)
(* present; a token is its text.                                           *)
(***************************************************************************)
\* the concatenation of a sequence of texts
RECURSIVE Flat(_)
Flat(units) == IF units = <<>> THEN <<>> ELSE units[1] \o Flat(From(units, 2))

\* IRIREF: '<' (~[\u0000- =<>\"{}|^`\\] | UCHAR)* '>'
UCharColon == <<BSL, "u", "0", "0", "3", "A">>
IriUnits == {<<"r">>, <<":">>, <<"/">>, UCharColon, <<"é">>}
HttpXY == <<"<", "h", "t", "t", "p", ":", "/", "/", "x", "/", "y", ">">>
Rel == <<"<", "r", "e", "l", ">">>
IRIREFs == {<<"<">> \o Flat(u) \o <<">">> : u \in TextsUpTo(IriUnits, MaxIriUnits)}
              \cup {HttpXY, Rel}

\* PNAME_NS: PN_PREFIX? ':' ;  PNAME_LN: PNAME_NS PN_LOCAL
ExKey == <<"e", "x", ":">>
EmptyKey == <<":">>
ExFoo == <<"e", "x", ":", "f", "o", "o">>
PNAME_NSs == {ExKey, EmptyKey}
PN_LOCALs == TextsUpTo({"f", ":"}, MaxLocalLen) \ {<<>>}
PNAME_LNs == {ns \o l : ns \in PNAME_NSs, l \in PN_LOCALs} \cup {ExFoo}
PrefixedNames == {[alt |-> "PNAME_NS", text |-> t] : t \in PNAME_NSs}
                    \cup {[alt |-> "PNAME_LN", text |-> t] : t \in PNAME_LNs}

\* iri: IRIREF | prefixedName
Iris == {[alt |-> "IRIREF", text |-> t] : t \in IRIREFs}
           \cup {[alt |-> "prefixedName", prefixedName |-> n] : n \in PrefixedNames}

\* shapeExprLabel: iri | blankNode
ShapeExprLabels == {[alt |-> "iri", iri |-> i] : i \in Iris}
                      \cup {[alt |-> "blankNode", text |-> <<"_", ":", "b">>]}

\* shapeRef: ATPNAME_NS | ATPNAME_LN | '@' shapeExprLabel
ShapeRefs == {[alt |-> "ATPNAME_NS", text |-> <<"@">> \o t] : t \in PNAME_NSs}
                \cup {[alt |-> "ATPNAME_LN", text |-> <<"@">> \o t] : t \in PNAME_LNs}
                \cup {[alt |-> "shapeExprLabel", shapeExprLabel |-> l] : l \in ShapeExprLabels}

\* INTEGER: [+-]? [0-9]+ ;  DECIMAL: [+-]? [0-9]* '.' [0-9]+ ;  DOUBLE
IntegerTokens == {s \o d : s \in {<<>>, <<"+">>, <<"-">>},
                           d \in TextsUpTo({"0", "2", "4"}, MaxDigits) \ {<<>>}}
DecimalTokens == {<<"1", ".", "5", "0">>, <<".", "5">>, <<"-", "0", ".", "0">>, <<"+", "0", "4", ".", "0">>, <<"1", "2", ".", "2", "5">>}
DoubleTokens == {<<"1", "e", "0">>, <<"1", ".", "5", "E", "1">>, <<".", "5", "e", "-", "1">>, <<"-", "2", "E", "+", "1">>, <<"2", "5", ".", "e", "0">>}
NumericLiterals == {[alt |-> "INTEGER", text |-> t] : t \in IntegerTokens}
                      \cup {[alt |-> "DECIMAL", text |-> t] : t \in DecimalTokens}
                      \cup {[alt |-> "DOUBLE", text |-> t] : t \in DoubleTokens}

\* string: STRING_LITERAL1 | STRING_LITERAL2 | STRING_LITERAL_LONG1 |
\* STRING_LITERAL_LONG2.  Between its delimiters a string holds plain
\* characters and escapes; the quote of a short string occurs only escaped,
\* the quote of a long string at most twice in a row and not at the end
StrUnits == {<<"a">>, <<BSL, "n">>, <<BSL, "\"">>, <<"'">>, <<"\"">>}
Delimiters == {<<"'">>, <<"\"">>, LongQuote1, LongQuote2}
ValidBody(d, u) ==
    IF Len(d) = 1
    THEN \A i \in 1..Len(u) : u[i] # d
    ELSE /\ u = <<>> \/ u[Len(u)] # <<d[1]>>
         /\ \A i \in 1..(Len(u) - 2) : ~(u[i] = <<d[1]>> /\ u[i + 1] = <<d[1]>> /\ u[i + 2] = <<d[1]>>)
Strings == {d \o Flat(u) \o d : <<d, u>> \in
                {du \in Delimiters \X TextsUpTo(StrUnits, MaxStrUnits) : ValidBody(du[1], du[2])}}

\* rdfLiteral: string (LANGTAG | '^^' datatype)? ;  datatype: iri
NoNode == [alt |-> "None"]
LangTags == {<<"@", "e", "n">>, <<"@", "E", "N", "-", "u", "s">>}
Datatypes == {[alt |-> "iri", iri |-> [alt |-> "IRIREF", text |-> Rel]],
              [alt |-> "iri", iri |-> [alt |-> "prefixedName",
                                       prefixedName |-> [alt |-> "PNAME_LN", text |-> ExFoo]]]}
RdfLiterals == {[string |-> s, LANGTAG |-> None, datatype |-> NoNode] : s \in Strings}
                  \cup {[string |-> s, LANGTAG |-> l, datatype |-> NoNode] : s \in Strings, l \in LangTags}
                  \cup {[string |-> s, LANGTAG |-> None, datatype |-> d] : s \in Strings, d \in Datatypes}

\* literal: rdfLiteral | numericLiteral | booleanLiteral
Literals == {[alt |-> "rdfLiteral", rdfLiteral |-> r] : r \in RdfLiterals}
               \cup {[alt |-> "numericLiteral", numericLiteral |-> n] : n \in NumericLiterals}
               \cup {[alt |-> "booleanLiteral", text |-> t] : t \in {<<"t", "r", "u", "e">>, <<"f", "a", "l", "s", "e">>}}

\* the node or token an operation is applied to, with the parameter type it
\* fits
Inputs == {[rule |-> "PREFIXstr", text |-> p] : p \in PNAME_NSs \cup {<<>>}}
             \cup {[rule |-> "IRIREF", text |-> n] : n \in IRIREFs}
             \cup {[rule |-> "prefixedName", node |-> n] : n \in PrefixedNames}
             \cup {[rule |-> "iri", node |-> n] : n \in Iris}
             \cup {[rule |-> "shapeRef", node |-> n] : n \in ShapeRefs}
             \cup {[rule |-> "numericLiteral", node |-> n] : n \in NumericLiterals}
             \cup {[rule |-> "literal", node |-> n] : n \in Literals}

\* the IRIs the declarations of a document bind
HttpEx == <<"h", "t", "t", "p", ":", "/", "/", "e", "x", "/">>
HttpLd == <<"h", "t", "t", "p", ":", "/", "/", "l", "d", "/">>
HttpB == <<"h", "t", "t", "p", ":", "/", "/", "b", "/">>
Namespaces == {HttpEx, <<"n", "/">>}
ReservedNamespaces == {HttpLd}
BaseValues == {HttpB, <<>>}

(***************************************************************************)
(* The arguments of the _lookup_prefix calls an operation makes            *)
(***************************************************************************)
iri_lookups(iri_) ==
    IF iri_.alt = "IRIREF" THEN <<>> ELSE <<prefixedname_key(iri_.prefixedName)>>

shapeRef_lookups(ref) ==
    IF ref.alt \in {"ATPNAME_NS", "ATPNAME_LN"} THEN <<shapeRef_key(ref)>>
    ELSE IF ref.shapeExprLabel.alt = "iri" THEN iri_lookups(ref.shapeExprLabel.iri)
    ELSE <<>>

literal_lookups(literal) ==
    IF literal.alt = "rdfLiteral" /\ literal.rdfLiteral.datatype.alt # "None"
    THEN iri_lookups(literal.rdfLiteral.datatype.iri)
    ELSE <<>>

(***************************************************************************)
(* Specification of the context: a syntax node is drawn; declarations      *)
(* change the context, and the operation the node fits is applied to it in *)
(* the context of the moment.                                              *)
(***************************************************************************)
\* Python's  d[k] = v
Put(d, k, v) == [x \in DOMAIN d \cup {k} |-> IF x = k THEN v ELSE d[x]]

\* ParserContext.__init__
InitContext ==
    /\ prefixes = [x \in {} |-> <<>>]
    /\ ld_prefixes = [x \in {} |-> <<>>]
    /\ base = None

Init ==
    /\ InitContext
    /\ op = "init"
    /\ arg \in Inputs
    /\ rval = None
    /\ keys = <<>>

\* a PREFIX directive binds a prefix in the user table
DeclarePrefix ==
    /\ \E p \in PNAME_NSs, ns \in Namespaces : prefixes' = Put(prefixes, p, ns)
    /\ op' = "declare"
    /\ rval' = None
    /\ keys' = <<>>
    /\ UNCHANGED <<ld_prefixes, base, arg>>

\* the framework binds a prefix in the reserved table
ReservePrefix ==
    /\ \E p \in {ExKey}, ns \in ReservedNamespaces : ld_prefixes' = Put(ld_prefixes, p, ns)
    /\ op' = "declare"
    /\ rval' = None
    /\ keys' = <<>>
    /\ UNCHANGED <<prefixes, base, arg>>

\* a BASE directive sets the base IRI
DeclareBase ==
    /\ \E b \in BaseValues : base' = b
    /\ op' = "declare"
    /\ rval' = None
    /\ keys' = <<>>
    /\ UNCHANGED <<prefixes, ld_prefixes, arg>>

LookupPrefix ==
    /\ arg.rule = "PREFIXstr"
    /\ op' = "_lookup_prefix"
    /\ rval' = _lookup_prefix(arg.text)
    /\ keys' = <<arg.text>>
    /\ UNCHANGED <<prefixes, ld_prefixes, base, arg>>

IrirefToStr ==
    /\ arg.rule = "IRIREF"
    /\ op' = "iriref_to_str"
    /\ rval' = iriref_to_str(arg.text)
    /\ keys' = <<>>
    /\ UNCHANGED <<prefixes, ld_prefixes, base, arg>>

PrefixednameToStr ==
    /\ arg.rule = "prefixedName"
    /\ op' = "prefixedname_to_str"
    /\ rval' = prefixedname_to_str(arg.node)
    /\ keys' = <<prefixedname_key(arg.node)>>
    /\ UNCHANGED <<prefixes, ld_prefixes, base, arg>>

IriToStr ==
    /\ arg.rule = "iri"
    /\ op' = "iri_to_str"
    /\ rval' = iri_to_str(arg.node)
    /\ keys' = iri_lookups(arg.node)
    /\ UNCHANGED <<prefixes, ld_prefixes, base, arg>>

ShapeRefToIriref ==
    /\ arg.rule = "shapeRef"
    /\ op' = "shapeRef_to_iriref"
    /\ rval' = shapeRef_to_iriref(arg.node)
    /\ keys' = shapeRef_lookups(arg.node)
    /\ UNCHANGED <<prefixes, ld_prefixes, base, arg>>

NumericLiteralToType ==
    /\ arg.rule = "numericLiteral"
    /\ op' = "numeric_literal_to_type"
    /\ rval' = numeric_literal_to_type(arg.node)
    /\ keys' = <<>>
    /\ UNCHANGED <<prefixes, ld_prefixes, base, arg>>

LiteralToObjectLiteral ==
    /\ arg.rule = "literal"
    /\ op' = "literal_to_ObjectLiteral"
    /\ rval' = literal_to_ObjectLiteral(arg.node)
    /\ keys' = literal_lookups(arg.node)
    /\ UNCHANGED <<prefixes, ld_prefixes, base, arg>>

Next ==
    \/ DeclarePrefix
    \/ ReservePrefix
    \/ DeclareBase
    \/ LookupPrefix
    \/ IrirefToStr
    \/ PrefixednameToStr
    \/ IriToStr
    \/ ShapeRefToIriref
    \/ NumericLiteralToType
    \/ LiteralToObjectLiteral

Spec == Init /\ [][Next]_vars

(***************************************************************************)
(* Specification of the escape translators: a text and a quote character   *)
(* are drawn, then the translators are applied to it.                      *)
(***************************************************************************)
EscAlphabet == {BSL, "b", "f", "n", "r", "t", "BS", "FF", "LF", "CR", "HT", ".", "a", "\""}

EscQuotes == {"", "\""}

InitEsc ==
    /\ InitContext
    /\ op = "init"
    /\ arg \in [rule : {"text"}, txt : TextsUpTo(EscAlphabet, MaxLen), quote_char : EscQuotes]
    /\ rval = None
    /\ keys = <<>>

FixTextEscapes ==
    /\ op = "init"
    /\ op' = "fix_text_escapes"
    /\ rval' = fix_text_escapes(arg.txt, arg.quote_char)
    /\ UNCHANGED <<prefixes, ld_prefixes, base, arg, keys>>

FixReEscapes ==
    /\ op = "init"
    /\ op' = "fix_re_escapes"
    /\ rval' = fix_re_escapes(arg.txt)
    /\ UNCHANGED <<prefixes, ld_prefixes, base, arg, keys>>

\* a pattern whose text went through fix_text_escapes before fix_re_escapes
FixReAfterText ==
    /\ op = "fix_text_escapes"
    /\ op' = "fix_re_after_text"
    /\ rval' = fix_re_escapes(rval)
    /\ UNCHANGED <<prefixes, ld_prefixes, base, arg, keys>>

NextEsc == FixTextEscapes \/ FixReEscapes \/ FixReAfterText

SpecEsc == InitEsc /\ [][NextEsc]_vars

(***************************************************************************)
(* Properties of the escape translators (SpecEsc)                          *)
(***************************************************************************)
\* the backslash pairs and the single characters of a text, as a scan from
\* left to right without overlap meets them
RECURSIVE Tokens(_)
Tokens(txt) ==
    IF txt = <<>> THEN <<>>
    ELSE IF Len(txt) >= 2 /\ txt[1] = BSL
         THEN <<SubSeq(txt, 1, 2)>> \o Tokens(From(txt, 3))
         ELSE <<<<txt[1]>>>> \o Tokens(From(txt, 2))

IsPair(tok) == Len(tok) = 2

LetterOfControl == [c \in {"BS", "FF", "LF", "CR", "HT"} |->
                      CASE c = "BS" -> "b"
                        [] c = "FF" -> "f"
                        [] c = "LF" -> "n"
                        [] c = "CR" -> "r"
                        [] c = "HT" -> "t"]

ControlOfLetter == [c \in {"b", "f", "n", "r", "t"} |->
                      CASE c = "b" -> "BS"
                        [] c = "f" -> "FF"
                        [] c = "n" -> "LF"
                        [] c = "r" -> "CR"
                        [] c = "t" -> "HT"]

IsLetterEscape(tok) == IsPair(tok) /\ tok[2] \in DOMAIN ControlOfLetter

\* a pair decoded as a string escape is meant to be: the control character
\* of a letter escape, else the escaped character alone
DecodedPair(tok) ==
    IF ~IsPair(tok) THEN tok
    ELSE IF tok[2] \in DOMAIN ControlOfLetter THEN <<ControlOfLetter[tok[2]]>>
    ELSE <<tok[2]>>

\* C1: fix_text_escapes replaces every backslash pair whose second character
\* is one of b, f, n, r, t by the single control character it names and
\* every other backslash pair by its second character alone, so that
\* a\nb decodes to the three characters a, newline, b.
C1_StringEscapesDecoded ==
    (op = "fix_text_escapes" /\ arg.quote_char = "")
        => rval = Flat([i \in 1..Len(Tokens(arg.txt)) |-> DecodedPair(Tokens(arg.txt)[i])])

\* C2: fix_re_escapes applied to the result of fix_text_escapes (no quote
\* character) gives back every letter escape \b, \f, \n, \r, \t of the text
\* at the place of the scan where it stood, and fix_re_escapes leaves a text
\* without backslash unchanged.
C2_RoundTrip ==
    /\ (op = "fix_re_after_text" /\ arg.quote_char = "")
          => LET T == Tokens(arg.txt)
                 R == Tokens(rval)
             IN  /\ Len(R) = Len(T)
                 /\ \A i \in 1..Len(T) : IsLetterEscape(T[i]) => R[i] = T[i]
    /\ (op = "fix_re_escapes" /\ ~Contains(arg.txt, BSL)) => rval = arg.txt

C2_Witness ==
    /\ op = "fix_re_after_text"
    /\ arg.quote_char = ""
    /\ arg.txt = <<"a", BSL, "n">>
    /\ rval = <<"a", BSL, "n">>

RegexMetachars == {BSL, ".", "?", "*", "+", "^", "$", "(", ")", "[", "]", "{", "|", "}"}

\* what a pair becomes as a regular-expression escape
RegexPair(tok) ==
    IF ~IsPair(tok) THEN tok
    ELSE IF tok[2] \in DOMAIN LetterOfControl THEN <<BSL, LetterOfControl[tok[2]]>>
    ELSE IF tok[2] \in DOMAIN ControlOfLetter THEN <<BSL, tok[2]>>
    ELSE IF tok[2] \in RegexMetachars THEN tok
    ELSE <<tok[2]>>

\* C3: fix_re_escapes turns every backslash pair whose second character is a
\* control character, or the letter of one, into the two-character letter
\* escape of that control character, keeps the pair of a regex
\* metacharacter, reduces every other pair to its second character, and
\* leaves the characters outside the pairs unchanged.
C3_RegexEscapes ==
    op = "fix_re_escapes"
        => rval = Flat([i \in 1..Len(Tokens(arg.txt)) |-> RegexPair(Tokens(arg.txt)[i])])

C3_Witness ==
    /\ op = "fix_re_escapes"
    /\ arg.txt = <<BSL, "CR", "a">>
    /\ rval = <<BSL, "r", "a">>

(***************************************************************************)
(* Properties of the context (Spec)                                        *)
(***************************************************************************)
\* the entry of a key in the two tables, the reserved one first, and the
\* empty text for a key of neither
TableEntry(k) ==
    IF k \in DOMAIN ld_prefixes THEN ld_prefixes[k]
    ELSE IF k \in DOMAIN prefixes THEN prefixes[k]
    ELSE <<>>

\* the text between the delimiters of an IRIREF, decoded
Decoded(ref) == unicode_escape(SubSeq(ref, 2, Len(ref) - 1))

\* C4: iriref_to_str returns the decoded text d between the delimiters when
\* d contains ':', else base followed by d when a base is set, else d; it
\* never fails.  <http://x/y> without base gives http://x/y and <rel> with
\* base http://b/ gives http://b/rel.
C4_ResolveBracketedIri ==
    op = "iriref_to_str"
        => /\ rval # TypeError
           /\ rval = (IF Contains(Decoded(arg.text), ":") THEN Decoded(arg.text)
                      ELSE IF base # None THEN base \o Decoded(arg.text)
                      ELSE Decoded(arg.text))
           /\ (arg.text = HttpXY /\ base = None) => rval = SubSeq(HttpXY, 2, Len(HttpXY) - 1)
           /\ (arg.text = Rel /\ base = HttpB) => rval = HttpB \o <<"r", "e", "l">>

C4_Witness ==
    /\ op = "iriref_to_str"
    /\ arg.text = Rel
    /\ base = HttpB
    /\ rval = HttpB \o <<"r", "e", "l">>

\* the place of the first ':' of a text
FirstColon(t) == CHOOSE i \in 1..Len(t) : t[i] = ":" /\ \A j \in 1..(i - 1) : t[j] # ":"

\* the text of an iri node that resolution keeps: the decoded text of an
\* IRIREF, the local part of a prefixed name
ResolvedText(iri_) ==
    IF iri_.alt = "IRIREF" THEN Decoded(iri_.text)
    ELSE From(iri_.prefixedName.text, FirstColon(iri_.prefixedName.text) + 1)

\* the prefix of a prefixed name, up to its first ':'
PrefixOf(name) == SubSeq(name.text, 1, FirstColon(name.text))

\* C5 as stated: every IRI iri_to_str returns contains ':' or is the base
\* IRI followed by the resolved text.
C5_NeverRelative ==
    op = "iri_to_str"
        => \/ Contains(rval, ":")
           \/ base # None /\ rval = base \o ResolvedText(arg.node)

\* C5 as amended: every IRI iri_to_str returns contains ':' or is the base
\* IRI followed by the decoded text, except that without a base an IRIREF
\* without ':' comes back as its decoded text, and a prefixed name comes
\* back as the entry of its prefix in the tables (the empty text when it
\* has none) followed by its local part, whether or not that holds a ':'.
C5_RelativeOnlyWhenUnresolved ==
    op = "iri_to_str"
        => IF arg.node.alt = "IRIREF"
           THEN \/ Contains(rval, ":")
                \/ base # None /\ rval = base \o ResolvedText(arg.node)
                \/ base = None /\ rval = ResolvedText(arg.node)
           ELSE rval = TableEntry(PrefixOf(arg.node.prefixedName)) \o ResolvedText(arg.node)

C5_Witness ==
    /\ op = "iri_to_str"
    /\ arg.node.alt = "IRIREF"
    /\ arg.node.text = <<"<", "r", ">">>
    /\ base = None
    /\ rval = <<"r">>

\* C6: _lookup_prefix never fails; for the empty prefix it returns base
\* (None when no base is set), for a key of the reserved table the reserved
\* value even when the user table binds the key too, else the value of the
\* user table, or the empty text for a key of neither.
C6_LookupPrefix ==
    op = "_lookup_prefix"
        => /\ rval # TypeError
           /\ arg.text = <<>> => rval = base
           /\ (arg.text # <<>> /\ arg.text \in DOMAIN ld_prefixes) => rval = ld_prefixes[arg.text]
           /\ (arg.text # <<>> /\ arg.text \notin DOMAIN ld_prefixes /\ arg.text \in DOMAIN prefixes)
                 => rval = prefixes[arg.text]
           /\ (arg.text # <<>> /\ arg.text \notin DOMAIN ld_prefixes /\ arg.text \notin DOMAIN prefixes)
                 => rval = <<>>

C6_Witness ==
    /\ op = "_lookup_prefix"
    /\ arg.text = ExKey
    /\ ExKey \in DOMAIN prefixes
    /\ ExKey \in DOMAIN ld_prefixes
    /\ prefixes[ExKey] # ld_prefixes[ExKey]
    /\ rval = HttpLd

\* C7: prefixedname_to_str returns, for the bare form P:, the lookup of
\* "P:", and for the combined form, split at its first ':' into P and
\* local, the lookup of "P:" followed by local.  With "ex:" bound to
\* http://ex/, ex:foo gives http://ex/foo and ex: gives http://ex/.
C7_ResolvePrefixedName ==
    op = "prefixedname_to_str"
        => LET t == arg.node.text
               P == SubSeq(t, 1, FirstColon(t) - 1)
               local == From(t, FirstColon(t) + 1)
           IN  /\ arg.node.alt = "PNAME_NS" => rval = _lookup_prefix(t)
               /\ arg.node.alt = "PNAME_LN" => rval = _lookup_prefix(P \o <<":">>) \o local
               /\ (TableEntry(ExKey) = HttpEx /\ t = ExFoo) => rval = HttpEx \o <<"f", "o", "o">>
               /\ (TableEntry(ExKey) = HttpEx /\ t = ExKey) => rval = HttpEx

C7_Witness ==
    /\ op = "prefixedname_to_str"
    /\ arg.node.alt = "PNAME_LN"
    /\ arg.node.text = <<"e", "x", ":", "f", ":">>
    /\ ExKey \notin DOMAIN ld_prefixes
    /\ ExKey \in DOMAIN prefixes
    /\ rval = prefixes[ExKey] \o <<"f", ":">>

\* a string token delimited by ''' or """ at both ends
TripleQuoted(txt) ==
    \/ startswith(txt, LongQuote1) /\ endswith(txt, LongQuote1)
    \/ startswith(txt, LongQuote2) /\ endswith(txt, LongQuote2)

\* C8: literal_to_ObjectLiteral on an RDF literal strips three characters
\* from each end of a ''' or """ delimited string and decodes it without
\* quote character, else strips one character from each end and decodes it
\* with that delimiter as quote character; value is the decoded text;
\* language is set iff there is a language tag, to the tag in lower case;
\* type is set iff there is a datatype, to its resolved IRI; no literal
\* has both language and type.
C8_BuildRdfLiteral ==
    op = "literal_to_ObjectLiteral"
        => /\ ~(rval.type # None /\ rval.language # None)
           /\ arg.node.alt = "rdfLiteral"
                 => LET rdflit == arg.node.rdfLiteral
                        txt == rdflit.string
                    IN  /\ rval.value =
                              (IF TripleQuoted(txt)
                               THEN fix_text_escapes(SubSeq(txt, 4, Len(txt) - 3), "")
                               ELSE fix_text_escapes(SubSeq(txt, 2, Len(txt) - 1), txt[1]))
                        /\ (rval.language # None) <=> (rdflit.LANGTAG # None)
                        /\ rdflit.LANGTAG # None
                              => rval.language = lower(From(rdflit.LANGTAG, 2))
                        /\ rdflit.LANGTAG = <<"@", "E", "N", "-", "u", "s">>
                              => rval.language = <<"e", "n", "-", "u", "s">>
                        /\ (rval.type # None) <=> (rdflit.datatype.alt # "None")
                        /\ rdflit.datatype.alt # "None"
                              => rval.type = iri_to_str(rdflit.datatype.iri)

C8_Witness ==
    /\ op = "literal_to_ObjectLiteral"
    /\ arg.node.alt = "rdfLiteral"
    /\ arg.node.rdfLiteral.string = LongQuote2 \o <<"a", BSL, "n">> \o LongQuote2
    /\ arg.node.rdfLiteral.LANGTAG = <<"@", "E", "N", "-", "u", "s">>
    /\ rval.value = fix_text_escapes(<<"a", BSL, "n">>, "")
    /\ rval.language = <<"e", "n", "-", "u", "s">>
    /\ rval.type = None

\* an INTEGER token in canonical form: no '+', no leading zero, no "-0"
IsCanonical(t) ==
    LET d == IF t[1] \in {"+", "-"} THEN From(t, 2) ELSE t
    IN  /\ t[1] # "+"
        /\ d[1] # "0" \/ (d = <<"0">> /\ t[1] # "-")

\* C9: on an INTEGER token t, literal_to_ObjectLiteral returns value t
\* unchanged with type xsd:integer, and numeric_literal_to_type returns the
\* canonical rendering of the integer t denotes, without '+' and without
\* leading zeros; the two are equal exactly when t is canonical.
C9_IntegerCanonicalization ==
    /\ (op = "literal_to_ObjectLiteral" /\ arg.node.alt = "numericLiteral"
           /\ arg.node.numericLiteral.alt = "INTEGER")
          => /\ rval.value = arg.node.numericLiteral.text
             /\ rval.type = RDF_INTEGER_TYPE
    /\ (op = "numeric_literal_to_type" /\ arg.node.alt = "INTEGER")
          => /\ rval.tag = "Integer"
             /\ IsCanonical(rval.val)
             /\ int(rval.val) = int(arg.node.text)
             /\ (rval.val = arg.node.text) <=> IsCanonical(arg.node.text)

C9_Witness ==
    /\ op = "numeric_literal_to_type"
    /\ arg.node.alt = "INTEGER"
    /\ arg.node.text = <<"+", "0", "4">>
    /\ rval.val = <<"4">>

\* C10: every key prefixedname_to_str and the two shorthand alternatives of
\* shapeRef_to_iriref hand to _lookup_prefix is non-empty and ends with
\* ':', so a name with an empty prefix, :local, resolves to the entry of
\* ":" in the tables followed by local, whatever base is.
C10_KeysEndWithColon ==
    (\/ op = "prefixedname_to_str"
     \/ op = "shapeRef_to_iriref" /\ arg.node.alt \in {"ATPNAME_NS", "ATPNAME_LN"})
        => LET name == IF op = "prefixedname_to_str" THEN arg.node.text ELSE From(arg.node.text, 2)
               val == IF op = "prefixedname_to_str" THEN rval ELSE rval.val
           IN  /\ Len(keys) = 1
               /\ keys[1] # <<>>
               /\ keys[1][Len(keys[1])] = ":"
               /\ name[1] = ":" => val = TableEntry(EmptyKey) \o From(name, 2)

C10_Witness ==
    /\ op = "prefixedname_to_str"
    /\ arg.node.text = <<":", "f">>
    /\ base = HttpB
    /\ EmptyKey \notin DOMAIN prefixes
    /\ rval = <<"f">>

====
